---- MODULE Spec2Model ----
(***************************************************************************)
(* Model of fetch_daily_gamelogs.py: the franchise registry built at       *)
(* import time, the game record resolver (process_single_game_data), the   *)
(* loader of already ingested game ids (load_processed_games_from_db) and  *)
(* one polling cycle (check_and_process_games) followed by the main block. *)
(*                                                                         *)
(* Python values are tagged tuples: <<"str", s>>, <<"int", n>>, <<"none">> *)
(* for None and <<"missing">> for a key the dict does not hold.  Python    *)
(* strings are TLA+ strings, read character by character with SubSeq.      *)
(***************************************************************************)
EXTENDS Integers, Sequences, FiniteSets, TLC

\* ------------------------------------------------------------------ bounds

\* Most rows of the reference file in the runs of the registry loop on its own.
MaxTeams == 2

\* Most observations the schedule API lists over the two queried dates together.
MaxFeed == 2
\* Most rows the gamelogs table holds.
MaxRows == 2

\* ------------------------------------------------------- Python values

None == <<"none">>
Missing == <<"missing">>
S(s) == <<"str", s>>
I(n) == <<"int", n>>

\* float('inf'), as pandas reads the cell "inf" of a numeric column.
Inf == <<"float", "inf">>

IsStr(v) == v[1] = "str"
IsInt(v) == v[1] = "int"

\* dict.get(k): None for a key the dict does not hold.
Get(d, k) == IF d[k] = Missing THEN None ELSE d[k]
\* dict.get(k, default)
GetOr(d, k, default) == IF d[k] = Missing THEN default ELSE d[k]
\* k in d and d[k] is not None
Present(d, k) == d[k] # Missing /\ d[k] # None

\* Truth value of a Python object: None, "" and 0 are false.
Truthy(v) == v # None /\ v # Missing /\ v # S("") /\ v # I(0)

\* ------------------------------------------------------------ strings

Char(s, i) == SubSeq(s, i, i)

Upper == "ABCDEFGHIJKLMNOPQRSTUVWXYZ"
LowerAlphabet == "abcdefghijklmnopqrstuvwxyz"
Digits == "0123456789"

\* Position of the one-character string c in s, 0 when it is not there.
IndexOf(c, s) ==
    LET hits == {i \in 1..Len(s) : Char(s, i) = c}
    IN IF hits = {} THEN 0 ELSE CHOOSE i \in hits : \A j \in hits : i <= j

\* The lower-case letter of each upper-case letter.
LowerTable ==
    [c \in {Char(Upper, i) : i \in 1..Len(Upper)} |-> Char(LowerAlphabet, IndexOf(c, Upper))]

LowerChar(c) == IF c \in DOMAIN LowerTable THEN LowerTable[c] ELSE c

\* str.lower()
RECURSIVE Lower(_)
Lower(s) == IF s = "" THEN "" ELSE LowerChar(Char(s, 1)) \o Lower(SubSeq(s, 2, Len(s)))

\* str.startswith(prefix)
StartsWith(s, prefix) == Len(s) >= Len(prefix) /\ SubSeq(s, 1, Len(prefix)) = prefix

IsSpace(c) == c \in {" ", "\t", "\n"}

\* str.split(): the maximal runs of non-whitespace characters, in order.
RECURSIVE SplitFrom(_, _, _)
SplitFrom(s, i, word) ==
    IF i > Len(s)
    THEN IF word = "" THEN <<>> ELSE <<word>>
    ELSE IF IsSpace(Char(s, i))
         THEN (IF word = "" THEN <<>> ELSE <<word>>) \o SplitFrom(s, i + 1, "")
         ELSE SplitFrom(s, i + 1, word \o Char(s, i))

Split(s) == SplitFrom(s, 1, "")

DigitTable == [c \in {Char(Digits, i) : i \in 1..Len(Digits)} |-> IndexOf(c, Digits) - 1]
IsDigit(c) == c \in DOMAIN DigitTable
DigitVal(c) == DigitTable[c]
AllDigits(s) == s # "" /\ \A i \in 1..Len(s) : IsDigit(Char(s, i))

RECURSIVE DigitsToNat(_, _)
DigitsToNat(s, acc) ==
    IF s = "" THEN acc
    ELSE DigitsToNat(SubSeq(s, 2, Len(s)), 10 * acc + DigitVal(Char(s, 1)))

RECURSIVE NatToStr(_)
NatToStr(n) ==
    IF n < 10 THEN Char(Digits, n + 1)
    ELSE NatToStr(n \div 10) \o Char(Digits, (n % 10) + 1)

IntToStr(n) == IF n < 0 THEN "-" \o NatToStr(-n) ELSE NatToStr(n)

RECURSIVE LStrip(_)
LStrip(s) == IF s # "" /\ IsSpace(Char(s, 1)) THEN LStrip(SubSeq(s, 2, Len(s))) ELSE s

RECURSIVE RStrip(_)
RStrip(s) == IF s # "" /\ IsSpace(Char(s, Len(s))) THEN RStrip(SubSeq(s, 1, Len(s) - 1)) ELSE s

\* str.strip()
Strip(s) == RStrip(LStrip(s))

\* str(v)
PyStr(v) ==
    CASE IsStr(v) -> v[2]
      [] IsInt(v) -> IntToStr(v[2])
      [] OTHER -> "None"

\* int(v): <<TRUE, n>>, or <<FALSE, 0>> where int raises ValueError or TypeError.
\* A string is stripped of surrounding whitespace and read as an optional sign
\* and decimal digits.
PyInt(v) ==
    CASE IsInt(v) -> <<TRUE, v[2]>>
      [] IsStr(v) ->
            LET s == Strip(v[2])
                neg == Len(s) >= 1 /\ Char(s, 1) = "-"
                body == IF Len(s) >= 1 /\ Char(s, 1) \in {"-", "+"}
                        THEN SubSeq(s, 2, Len(s)) ELSE s
            IN IF AllDigits(body)
               THEN <<TRUE, IF neg THEN -DigitsToNat(body, 0) ELSE DigitsToNat(body, 0)>>
               ELSE <<FALSE, 0>>
      [] OTHER -> <<FALSE, 0>>

\* The exception int(v) raises, "" when it returns.
IntRaises(v) ==
    IF PyInt(v)[1] THEN ""
    ELSE IF IsStr(v) THEN "ValueError"
    ELSE IF v = Inf THEN "OverflowError"
    ELSE "TypeError"

\* ------------------------------------------------------------- dicts

\* A dict with string keys is a function on the set of its keys.
EmptyDict == [k \in {} |-> None]
DictGet(m, k) == IF k \in DOMAIN m THEN m[k] ELSE None
DictGetOr(m, k, default) == IF k \in DOMAIN m THEN m[k] ELSE default
DictSet(m, k, v) == [j \in DOMAIN m \cup {k} |-> IF j = k THEN v ELSE m[j]]

\* ------------------------------------------------ franchise registry

\* datetime.now(timezone.utc).year at import time.
current_year_map == 2024

\* pd.notna
NotNa(v) == v # None /\ v # Missing

\* One row of teams_with_franchise.csv; NaN cells are None.
TeamRow(nick, city, code, first, last) ==
    [NICKNAME |-> nick, CITY |-> city, FRANCHISE |-> code, FIRST |-> first, LAST |-> last]

\* The year range of a row: <<TRUE, first, last>>, or <<FALSE, 0, 0>> where int()
\* raises ValueError or TypeError and the row is skipped.
RowYears(row, year) ==
    LET first == PyInt(row.FIRST)
        open == row.LAST = S("Present") \/ ~NotNa(row.LAST)
        last == IF open THEN <<TRUE, year + 1>> ELSE PyInt(row.LAST)
    IN IF first[1] /\ last[1] THEN <<TRUE, first[2], last[2]>> ELSE <<FALSE, 0, 0>>

\* A loop body that does not compare the years with the current year.
RowActive_AnyYear(row, year) ==
    /\ NotNa(row.FRANCHISE)
    /\ RowYears(row, year)[1]
    /\ NotNa(row.NICKNAME)

\* Whether the loop body reaches the mapping assignments for this row.
RowActive(row, year) ==
    /\ NotNa(row.FRANCHISE)
    /\ RowYears(row, year)[1]
    /\ RowYears(row, year)[2] <= year
    /\ year <= RowYears(row, year)[3]
    /\ NotNa(row.NICKNAME)

\* f"{row['CITY']} {nickname_val}"
FullName(row) == PyStr(row.CITY) \o " " \o PyStr(row.NICKNAME)

\* The exception one pass of the loop lets through, "" for none: the handler
\* catches ValueError and TypeError only.  FIRST is converted before LAST.
RowRaises(row, year) ==
    IF ~NotNa(row.FRANCHISE) THEN ""
    ELSE IF IntRaises(row.FIRST) = "OverflowError" THEN "OverflowError"
    ELSE IF IntRaises(row.FIRST) # "" THEN ""
    ELSE IF row.LAST = S("Present") \/ ~NotNa(row.LAST) THEN ""
    ELSE IF IntRaises(row.LAST) = "OverflowError" THEN "OverflowError"
    ELSE ""

\* The two mappings after one pass of the loop that raised nothing.
AddRow(before, row, year) ==
    IF ~RowActive(row, year) THEN before
    ELSE [team_mapping |->
              DictSet(before.team_mapping, Lower(PyStr(row.NICKNAME)), row.FRANCHISE),
          full_name_mapping |->
              IF NotNa(row.CITY)
              THEN DictSet(before.full_name_mapping, Lower(FullName(row)), row.FRANCHISE)
              ELSE before.full_name_mapping]

\* The two mappings after the rows teams[1..n] were processed, in order.
RECURSIVE BuildMappings(_, _, _)
BuildMappings(teams, n, year) ==
    IF n = 0 THEN [team_mapping |-> EmptyDict, full_name_mapping |-> EmptyDict]
    ELSE AddRow(BuildMappings(teams, n - 1, year), teams[n], year)

\* The reference rows of the runs modelled: two current franchises, one of them
\* with a two-word nickname, and a name that went out of use.
teams_df ==
    << TeamRow(S("Highlanders"), S("New York"), S("NYA"), I(1903), S("1912")),
       TeamRow(S("Yankees"), S("New York"), S("NYA"), I(1913), S("Present")),
       TeamRow(S("Sox"), S("Boston"), S("BOS"), I(1908), S("Present")),
       TeamRow(S("Blue Jays"), S("Toronto"), S("TOR"), I(1977), None) >>

\* A resolution that looks the last word up as it is written.
ResolveTeam_RawToken(full, reg) ==
    LET byFull == DictGet(reg.full_name_mapping, Lower(full))
        parts == Split(full)
    IN IF Truthy(byFull) THEN byFull
       ELSE IF parts # <<>>
            THEN DictGetOr(reg.team_mapping, parts[Len(parts)],
                           DictGet(reg.full_name_mapping, Lower(full)))
            ELSE byFull

\* The franchise a team name resolves to in the two mappings, None when neither
\* the lower-cased full name nor the lower-cased last word is a key.
ResolveTeam(full, reg) ==
    LET byFull == DictGet(reg.full_name_mapping, Lower(full))
        parts == Split(full)
    IN IF Truthy(byFull) THEN byFull
       ELSE IF parts # <<>>
            THEN DictGetOr(reg.team_mapping, Lower(parts[Len(parts)]),
                           DictGet(reg.full_name_mapping, Lower(full)))
            ELSE byFull

\* ----------------------------------------------------------- dates

\* The parts of s between the separators "-".
RECURSIVE SplitDash(_, _, _)
SplitDash(s, i, part) ==
    IF i > Len(s) THEN <<part>>
    ELSE IF Char(s, i) = "-" THEN <<part>> \o SplitDash(s, i + 1, "")
         ELSE SplitDash(s, i + 1, part \o Char(s, i))

IsLeap(y) == (y % 4 = 0 /\ y % 100 # 0) \/ y % 400 = 0
DaysIn(y, m) ==
    IF m = 2 THEN (IF IsLeap(y) THEN 29 ELSE 28)
    ELSE IF m \in {4, 6, 9, 11} THEN 30 ELSE 31

\* datetime.strptime(s, '%Y-%m-%d'): <<TRUE, y, m, d>>, or <<FALSE, 0, 0, 0>> for
\* ValueError.  %Y takes four digits, %m and %d one or two.
Strptime(s) ==
    LET parts == SplitDash(s, 1, "")
        bad == <<FALSE, 0, 0, 0>>
    IN IF Len(parts) # 3 THEN bad
       ELSE IF ~(AllDigits(parts[1]) /\ Len(parts[1]) = 4) THEN bad
       ELSE IF ~(AllDigits(parts[2]) /\ Len(parts[2]) \in {1, 2}) THEN bad
       ELSE IF ~(AllDigits(parts[3]) /\ Len(parts[3]) \in {1, 2}) THEN bad
       ELSE LET y == DigitsToNat(parts[1], 0)
                m == DigitsToNat(parts[2], 0)
                d == DigitsToNat(parts[3], 0)
            IN IF y >= 1 /\ m \in 1..12 /\ d >= 1 /\ d <= DaysIn(y, m)
               THEN <<TRUE, y, m, d>> ELSE bad

Pad(n, width) ==
    LET s == NatToStr(n)
    IN SubSeq("0000", 1, width - Len(s)) \o s

\* A date written with its dashes, as strftime('%Y-%m-%d') writes it.
Strftime_Dashed(y, m, d) == Pad(y, 4) \o "-" \o Pad(m, 2) \o "-" \o Pad(d, 2)

\* strftime('%Y%m%d')
Strftime(y, m, d) == Pad(y, 4) \o Pad(m, 2) \o Pad(d, 2)

\* ------------------------------------------------- game record resolver

essential_keys == <<"away_name", "home_name", "away_score", "home_score">>

\* One observation of the schedule API: a dict with these keys, Missing for a
\* key it does not hold.
Obs(id, date, away, home, ascore, hscore, status, type) ==
    [game_id |-> id, game_date |-> date, away_name |-> away, home_name |-> home,
     away_score |-> ascore, home_score |-> hscore, status |-> status, game_type |-> type]

Rejected(why) == [kind |-> "none", why |-> why]
Raised(what) == [kind |-> "raise", why |-> what]

\* process_single_game_data: a row (a list of six Python values, here a record
\* by column name), None (with the check that failed), or an exception the
\* function does not catch.
process_single_game_data(game_dict, game_id_str, reg) ==
    LET api_game_date_value == Get(game_dict, "game_date") IN
    IF ~Truthy(api_game_date_value) THEN Rejected("game_date")
    ELSE IF ~(\A i \in 1..Len(essential_keys) : Present(game_dict, essential_keys[i]))
    THEN Rejected("essential")
    ELSE IF ~IsStr(api_game_date_value) THEN Raised("TypeError")
    ELSE LET dt == Strptime(api_game_date_value[2]) IN
    IF ~dt[1] THEN Rejected("date_format")
    ELSE LET visitor_team_franchise == ResolveTeam(PyStr(game_dict.away_name), reg)
             home_team_franchise == ResolveTeam(PyStr(game_dict.home_name), reg)
             away_score_val == PyInt(game_dict.away_score)
             home_score_val == PyInt(game_dict.home_score)
    IN IF ~Truthy(visitor_team_franchise) THEN Rejected("visitor")
       ELSE IF ~Truthy(home_team_franchise) THEN Rejected("home")
       ELSE IF IntRaises(game_dict.away_score) = "OverflowError" THEN Raised("OverflowError")
       ELSE IF ~away_score_val[1] THEN Rejected("score")
       ELSE IF IntRaises(game_dict.home_score) = "OverflowError" THEN Raised("OverflowError")
       ELSE IF ~home_score_val[1] THEN Rejected("score")
       ELSE [kind |-> "row",
             row |-> [game_id |-> S(game_id_str),
                      date |-> S(Strftime(dt[2], dt[3], dt[4])),
                      visitor_team |-> visitor_team_franchise,
                      home_team |-> home_team_franchise,
                      visitor_score |-> I(away_score_val[2]),
                      home_score |-> I(home_score_val[2])]]

\* ------------------------------------------------------ orchestrator

\* game_status_lower of a status string
is_completed_status(game_status_lower) ==
    \/ game_status_lower = "final"
    \/ StartsWith(game_status_lower, "completed early")
    \/ game_status_lower = "game over"
    \/ game_status_lower = "completed"

\* A filter that lets every game type through.
is_regular_season_AnyType(game_type) == TRUE

is_regular_season(game_type) == game_type = S("R")

\* all_fetched_games_dict is a dict in insertion order: a sequence of
\* <<key, value>> pairs with distinct keys.
Keys(dict) == {dict[i][1] : i \in 1..Len(dict)}
Lookup(dict, k) == (CHOOSE i \in 1..Len(dict) : dict[i][1] = k)

\* A merge that keeps the first observation of an id and drops the later ones.
StoreObservation_KeepFirst(dict, game_id_str, game_data_from_api) ==
    IF game_id_str \in Keys(dict)
    THEN dict
    ELSE Append(dict, <<game_id_str, game_data_from_api>>)

\* A merge into a list: every observation is kept, in the order of arrival.
StoreObservation_KeepAll(dict, game_id_str, game_data_from_api) ==
    Append(dict, <<game_id_str, game_data_from_api>>)

\* all_fetched_games_dict[game_id_str] = game_data_from_api: an existing key keeps
\* its place and takes the new value, a new key goes last.
StoreObservation(dict, game_id_str, game_data_from_api) ==
    IF game_id_str \in Keys(dict)
    THEN [i \in 1..Len(dict) |->
            IF dict[i][1] = game_id_str THEN <<game_id_str, game_data_from_api>> ELSE dict[i]]
    ELSE Append(dict, <<game_id_str, game_data_from_api>>)

\* An inner loop without the test of the id: every observation is stored under
\* the string form of whatever .get('game_id') gave.
RECURSIVE MergeDay_AnyId(_, _, _)
MergeDay_AnyId(dict, games, n) ==
    IF n = 0 THEN dict
    ELSE StoreObservation(MergeDay_AnyId(dict, games, n - 1),
                          PyStr(Get(games[n], "game_id")), games[n])

\* The inner loop over one date's games_scheduled_for_day[1..n].
RECURSIVE MergeDay(_, _, _)
MergeDay(dict, games, n) ==
    IF n = 0 THEN dict
    ELSE LET before == MergeDay(dict, games, n - 1)
             current_game_id == Get(games[n], "game_id")
         IN IF current_game_id # None
            THEN StoreObservation(before, PyStr(current_game_id), games[n])
            ELSE before

\* The stage after a schedule call that answered.
AfterQuery(stage) == IF stage = "fetch_yesterday" THEN "fetch_today" ELSE "examine"

\* The stage after a schedule call that raised: the handler is inside the loop
\* over the dates, which goes on with the next date.
AfterScheduleError(stage) == AfterQuery(stage)

\* A main block that regenerates the CSV after every cycle.
ShouldRegenerate_Always(new_games_were_added) == TRUE

\* if new_games_were_added: regenerate_full_csv(ENGINE)
ShouldRegenerate(new_games_were_added) == new_games_were_added = "True"

\* A handler that falls through to the final return of the flag.
ReturnOnAppendError_Flag(found_new_final_game_flag) == found_new_final_game_flag

\* What check_and_process_games returns when to_sql raised.
ReturnOnAppendError(found_new_final_game_flag) == FALSE

\* SELECT DISTINCT game_id ... WHERE game_id IS NOT NULL, each as str.
StoredIds(rows) == {PyStr(rows[i].game_id) : i \in {j \in 1..Len(rows) : rows[j].game_id # None}}

\* A table that refuses a row whose game_id it already holds.
RECURSIVE to_sql_SkipStored(_, _)
to_sql_SkipStored(rows, df_new) ==
    IF df_new = <<>> THEN rows
    ELSE IF PyStr(Head(df_new).game_id) \in StoredIds(rows)
         THEN to_sql_SkipStored(rows, Tail(df_new))
         ELSE to_sql_SkipStored(Append(rows, Head(df_new)), Tail(df_new))

\* df_new.to_sql(..., if_exists='append'): the rows are added after the rows of
\* the table; the table has no key on game_id and the call takes no lock.
to_sql(rows, df_new) == rows \o df_new

\* ------------------------------------------------------------ inputs

\* The observations the schedule API returns in the runs modelled.
GameA ==
    Obs(S("2024_07_04_BOS_NYA"), S("2024-07-04"), S("New York Yankees"), S("Boston Sox"),
        I(3), I(5), S("Final"), S("R"))
\* The same game before it ended.
GameALive ==
    Obs(S("2024_07_04_BOS_NYA"), S("2024-07-04"), S("New York Yankees"), S("Boston Sox"),
        I(3), I(4), S("In Progress"), S("R"))
\* A second game: numeric id, home team known by its nickname only, called early.
GameB ==
    Obs(I(745102), S("2024-07-04"), S("Toronto Blue Jays"), S("Boston Red Sox"),
        S("2"), I(1), S("Completed Early: Rain"), S("R"))
\* The second game listed as a spring training game.
GameBSpring ==
    Obs(S("745102"), S("2024-07-04"), S("Toronto Blue Jays"), S("Boston Red Sox"),
        I(2), I(1), S("Final"), S("S"))
\* The second game final with no home score.
GameBNoScore ==
    Obs(I(745102), S("2024-07-04"), S("Toronto Blue Jays"), S("Boston Red Sox"),
        I(2), None, S("FINAL"), S("R"))
\* The first game with a null status.
GameANullStatus ==
    Obs(S("2024_07_04_BOS_NYA"), S("2024-07-04"), S("New York Yankees"), S("Boston Sox"),
        I(3), I(5), None, S("R"))
\* The second game final with its date as a number.
GameBIntDate ==
    Obs(I(745102), I(20240704), S("Toronto Blue Jays"), S("Boston Red Sox"),
        I(2), I(1), S("Final"), S("R"))
\* A final game the API lists without an id.
GameNoId ==
    Obs(None, S("2024-07-04"), S("New York Yankees"), S("Boston Sox"),
        I(7), I(0), S("Final"), S("R"))

Observations ==
    {GameA, GameALive, GameB, GameBSpring, GameBNoScore, GameBIntDate, GameANullStatus,
     GameNoId}

\* Lists of at most n observations.
RECURSIVE ListsUpTo(_)
ListsUpTo(n) ==
    IF n = 0 THEN {<<>>}
    ELSE LET shorter == ListsUpTo(n - 1)
         IN shorter \cup {Append(l, o) : l \in {s \in shorter : Len(s) = n - 1}, o \in Observations}

\* A row the bulk loader (process_gamelogs.py) wrote: it has no game_id.
LegacyRow ==
    [game_id |-> None, date |-> S("20230401"), visitor_team |-> S("NYA"),
     home_team |-> S("BOS"), visitor_score |-> I(1), home_score |-> I(0)]

\* The processes that can run the script; Spec runs every invocation, one after
\* the other, as process 1.
Runs == {1, 2}
QueryDates == {"yesterday", "today"}

\* ------------------------------------------------------------- state

VARIABLES
    team_mapping,      \* the two module-level mappings, built when the script starts
    full_name_mapping,
    feed,       \* what statsapi.schedule returns for each of the two dates
    table,      \* public.gamelogs: "absent", "nocol" (no game_id column) or "ok"
    store,      \* the rows of public.gamelogs, in insertion order
    last,       \* history: how the previous cycle against this feed ended
    pc,         \* where each run is
    processed_game_ids,
    loaded,     \* history: processed_game_ids as load_processed_games_from_db returned it
    all_fetched_games_dict,
    apiFailed,  \* history: the dates whose schedule call raised
    idx,        \* position of the second loop in all_fetched_games_dict.items()
    new_games_to_append_data,
    found_new_final_game_flag,
    returned,   \* what check_and_process_games returned: "unset", "True", "False"
    aborted,    \* the exception that ended the run, "" for none
    resolverCalls, \* history: the ids process_single_game_data was called for, with counts
    rejected,   \* history: the ids process_single_game_data returned None for
    appendCalls,\* history: the number of to_sql calls
    appended,   \* history: the rows this cycle added to the table
    storeAtStart, \* history: the table's rows when the cycle began
    csvRuns,    \* history: the number of regenerate_full_csv calls
    teams_rows, \* teams_df: the rows read from teams_with_franchise.csv
    year_now,   \* current_year_map
    row_pos,    \* position of the registry loop in teams_rows, past the end when done
    import_error, \* the exception that ended the import of the script, "" for none
    probe_in,   \* the argument of a single call of a function of the script
    probe_out   \* history: what that call returned

registry == <<team_mapping, full_name_mapping>>
Registry == [team_mapping |-> team_mapping, full_name_mapping |-> full_name_mapping]
env == <<feed, table, store, last>>
locals == <<processed_game_ids, loaded, all_fetched_games_dict, apiFailed, idx,
            new_games_to_append_data, found_new_final_game_flag, returned, aborted>>
history == <<resolverCalls, rejected, appendCalls, appended, storeAtStart, csvRuns>>
import == <<teams_rows, year_now, row_pos, import_error>>
probe == <<probe_in, probe_out>>
vars == <<registry, env, pc, locals, history, import, probe>>

\* No cycle ran against this feed yet.
NoRun ==
    [ran |-> FALSE, clean |-> FALSE, appendFailed |-> FALSE, batch |-> <<>>,
     answered |-> FALSE, exact |-> FALSE, rejected |-> {}]

FeedSize(f) == Len(f["yesterday"]) + Len(f["today"])

\* The locals and the history of every run before it starts.
InitLocals ==
    /\ pc = [p \in Runs |-> "idle"]
    /\ processed_game_ids = [p \in Runs |-> {}]
    /\ loaded = [p \in Runs |-> {}]
    /\ all_fetched_games_dict = [p \in Runs |-> <<>>]
    /\ apiFailed = [p \in Runs |-> {}]
    /\ idx = [p \in Runs |-> 1]
    /\ new_games_to_append_data = [p \in Runs |-> <<>>]
    /\ found_new_final_game_flag = [p \in Runs |-> FALSE]
    /\ returned = [p \in Runs |-> "unset"]
    /\ aborted = [p \in Runs |-> ""]
    /\ resolverCalls = [p \in Runs |-> EmptyDict]
    /\ rejected = [p \in Runs |-> {}]
    /\ appendCalls = [p \in Runs |-> 0]
    /\ appended = [p \in Runs |-> <<>>]
    /\ storeAtStart = [p \in Runs |-> <<>>]
    /\ csvRuns = [p \in Runs |-> 0]

\* No single call was made.
NoProbe == [kind |-> "unset"]

\* The script was imported: the registry loop went over teams_df.
Imported ==
    /\ teams_rows = teams_df
    /\ year_now = current_year_map
    /\ row_pos = Len(teams_df) + 1
    /\ import_error = ""
    /\ LET built == BuildMappings(teams_df, Len(teams_df), current_year_map)
       IN /\ team_mapping = built.team_mapping
          /\ full_name_mapping = built.full_name_mapping

\* No cycle started.
NothingRun ==
    /\ feed = [d \in QueryDates |-> <<>>]
    /\ last = NoRun
    /\ InitLocals

Init ==
    /\ Imported
    /\ \/ table = "absent" /\ store = <<>>
       \/ table = "nocol" /\ store = <<LegacyRow>>
       \/ table = "ok" /\ store \in {<<>>, <<LegacyRow>>}
    /\ NothingRun
    /\ probe_in = NoProbe
    /\ probe_out = NoProbe

NoneRunning == \A p \in Runs : pc[p] = "idle"

\* ------------------------------------------------------- environment

\* The API's answer for one date changes (a game is listed, ends, is corrected).
Publish ==
    /\ NoneRunning
    /\ \E d \in QueryDates, games \in ListsUpTo(MaxFeed) :
          /\ games # feed[d]
          /\ FeedSize([feed EXCEPT ![d] = games]) <= MaxFeed
          /\ feed' = [feed EXCEPT ![d] = games]
    /\ last' = NoRun
    /\ UNCHANGED <<registry, import, probe, table, store, pc, locals, history>>

\* UTC midnight passes: today's date is the next run's yesterday.
Tick ==
    /\ NoneRunning
    /\ feed["yesterday"] # <<>> \/ feed["today"] # <<>>
    /\ feed' = [d \in QueryDates |-> IF d = "yesterday" THEN feed["today"] ELSE <<>>]
    /\ last' = NoRun
    /\ UNCHANGED <<registry, import, probe, table, store, pc, locals, history>>

\* ------------------------------------------------- check_and_process_games

Set(f, p, v) == [f EXCEPT ![p] = v]

\* An exception no handler catches ends the process with a traceback.
Crash(p, what) ==
    /\ pc' = Set(pc, p, "crashed")
    /\ aborted' = Set(aborted, p, what)

\* load_processed_games_from_db, first statement of the cycle.
Load(p) ==
    /\ pc[p] = "idle"
    /\ storeAtStart' = Set(storeAtStart, p, store)
    /\ \/ \* table_exists raises (it is called outside the try block)
          /\ Crash(p, "table_exists")
          /\ UNCHANGED <<processed_game_ids, loaded>>
       \/ \* the table does not exist, or has no game_id column
          /\ table \in {"absent", "nocol"}
          /\ processed_game_ids' = Set(processed_game_ids, p, {})
          /\ loaded' = Set(loaded, p, {})
          /\ pc' = Set(pc, p, "fetch_yesterday")
          /\ UNCHANGED aborted
       \/ \* the query ran
          /\ table = "ok"
          /\ processed_game_ids' = Set(processed_game_ids, p, StoredIds(store))
          /\ loaded' = Set(loaded, p, StoredIds(store))
          /\ pc' = Set(pc, p, "fetch_yesterday")
          /\ UNCHANGED aborted
       \/ \* connecting, inspecting, the query or reading its rows raised: the
          \* handler logs and the ids read so far are returned
          /\ table = "ok"
          /\ \E ids \in SUBSET StoredIds(store) :
                /\ processed_game_ids' = Set(processed_game_ids, p, ids)
                /\ loaded' = Set(loaded, p, ids)
          /\ pc' = Set(pc, p, "fetch_yesterday")
          /\ UNCHANGED aborted
    /\ UNCHANGED <<registry, import, probe, env, all_fetched_games_dict, apiFailed, idx, new_games_to_append_data,
                   found_new_final_game_flag, returned, resolverCalls, rejected,
                   appendCalls, appended, csvRuns>>

\* One pass of the loop over game_dates_to_query.
Fetch(p) ==
    /\ pc[p] \in {"fetch_yesterday", "fetch_today"}
    /\ LET query_date == IF pc[p] = "fetch_yesterday" THEN "yesterday" ELSE "today"
       IN \/ \* statsapi.schedule raised
             /\ apiFailed' = Set(apiFailed, p, apiFailed[p] \cup {query_date})
             /\ pc' = Set(pc, p, AfterScheduleError(pc[p]))
             /\ UNCHANGED all_fetched_games_dict
          \/ /\ all_fetched_games_dict' =
                    Set(all_fetched_games_dict, p,
                        MergeDay(all_fetched_games_dict[p], feed[query_date],
                                 Len(feed[query_date])))
             /\ pc' = Set(pc, p, AfterQuery(pc[p]))
             /\ UNCHANGED apiFailed
    /\ UNCHANGED <<registry, import, probe, env, processed_game_ids, loaded, idx, new_games_to_append_data,
                   found_new_final_game_flag, returned, aborted, history>>

Count(calls, k) == DictGetOr(calls, k, 0)

\* A loop that marks every id it called the resolver for.
MarkedAfter_EveryCall(ids, game_id_str_key, game_row_data) == ids \cup {game_id_str_key}

\* processed_game_ids after the resolver returned: the id is added when a row
\* came back, next to the append to the batch, and not otherwise.
MarkedAfter(ids, game_id_str_key, game_row_data) ==
    IF game_row_data.kind = "row" THEN ids \cup {game_id_str_key} ELSE ids

\* One pass of the loop over all_fetched_games_dict.items().
Examine(p) ==
    /\ pc[p] = "examine"
    /\ idx[p] <= Len(all_fetched_games_dict[p])
    /\ LET game_id_str_key == all_fetched_games_dict[p][idx[p]][1]
           game_dict_val == all_fetched_games_dict[p][idx[p]][2]
           status == GetOr(game_dict_val, "status", S("Unknown"))
           game_type == GetOr(game_dict_val, "game_type", S("Unknown"))
           result == process_single_game_data(game_dict_val, game_id_str_key, Registry)
           called == Set(resolverCalls, p,
                         DictSet(resolverCalls[p], game_id_str_key,
                                 Count(resolverCalls[p], game_id_str_key) + 1))
       IN IF ~IsStr(status)
          THEN \* .lower() of a value that is no string: AttributeError
               /\ Crash(p, "AttributeError")
               /\ UNCHANGED <<idx, processed_game_ids, new_games_to_append_data,
                              found_new_final_game_flag, resolverCalls, rejected>>
          ELSE IF /\ is_completed_status(Lower(status[2]))
                  /\ is_regular_season(game_type)
                  /\ game_id_str_key \notin processed_game_ids[p]
          THEN /\ resolverCalls' = called
               /\ CASE result.kind = "raise" ->
                         /\ Crash(p, result.why)
                         /\ UNCHANGED <<idx, processed_game_ids, new_games_to_append_data,
                                        found_new_final_game_flag, rejected>>
                    [] result.kind = "row" ->
                         /\ new_games_to_append_data' =
                                Set(new_games_to_append_data, p,
                                    Append(new_games_to_append_data[p], result.row))
                         /\ processed_game_ids' =
                                Set(processed_game_ids, p,
                                    MarkedAfter(processed_game_ids[p], game_id_str_key, result))
                         /\ found_new_final_game_flag' = Set(found_new_final_game_flag, p, TRUE)
                         /\ idx' = Set(idx, p, idx[p] + 1)
                         /\ UNCHANGED <<pc, aborted, rejected>>
                    [] OTHER ->
                         /\ rejected' = Set(rejected, p, rejected[p] \cup {game_id_str_key})
                         /\ idx' = Set(idx, p, idx[p] + 1)
                         /\ processed_game_ids' =
                                Set(processed_game_ids, p,
                                    MarkedAfter(processed_game_ids[p], game_id_str_key, result))
                         /\ UNCHANGED <<pc, aborted, new_games_to_append_data,
                                        found_new_final_game_flag>>
          ELSE /\ idx' = Set(idx, p, idx[p] + 1)
               /\ UNCHANGED <<pc, aborted, processed_game_ids, new_games_to_append_data,
                              found_new_final_game_flag, resolverCalls, rejected>>
    /\ UNCHANGED <<registry, import, probe, env, loaded, all_fetched_games_dict, apiFailed, returned,
                   appendCalls, appended, storeAtStart, csvRuns>>

\* The end of check_and_process_games: nothing to append, or one to_sql call.
Persist(p) ==
    /\ pc[p] = "examine"
    /\ idx[p] > Len(all_fetched_games_dict[p])
    /\ pc' = Set(pc, p, "returned")
    /\ \/ /\ new_games_to_append_data[p] = <<>>
          /\ returned' = Set(returned, p,
                             IF found_new_final_game_flag[p] THEN "True" ELSE "False")
          /\ UNCHANGED <<table, store, appendCalls, appended>>
       \/ \* to_sql appended the rows in one transaction, creating the table if
          \* there was none
          /\ new_games_to_append_data[p] # <<>>
          /\ table # "nocol"
          /\ Len(store) + Len(new_games_to_append_data[p]) <= MaxRows
          /\ store' = to_sql(store, new_games_to_append_data[p])
          /\ table' = "ok"
          /\ appendCalls' = Set(appendCalls, p, appendCalls[p] + 1)
          /\ appended' = Set(appended, p, new_games_to_append_data[p])
          /\ returned' = Set(returned, p,
                             IF found_new_final_game_flag[p] THEN "True" ELSE "False")
       \/ \* to_sql raised: nothing was written
          /\ new_games_to_append_data[p] # <<>>
          /\ appendCalls' = Set(appendCalls, p, appendCalls[p] + 1)
          /\ returned' = Set(returned, p,
                             IF ReturnOnAppendError(found_new_final_game_flag[p])
                             THEN "True" ELSE "False")
          /\ UNCHANGED <<table, store, appended>>
    /\ UNCHANGED <<registry, import, probe, feed, last, processed_game_ids, loaded, all_fetched_games_dict,
                   apiFailed, idx, new_games_to_append_data, found_new_final_game_flag,
                   aborted, resolverCalls, rejected, storeAtStart, csvRuns>>

\* The main block after the call: regenerate the CSV if the cycle returned True.
Main(p) ==
    /\ pc[p] = "returned"
    /\ csvRuns' = Set(csvRuns, p, IF ShouldRegenerate(returned[p]) THEN csvRuns[p] + 1 ELSE csvRuns[p])
    /\ pc' = Set(pc, p, "done")
    /\ UNCHANGED <<registry, import, probe, env, locals, resolverCalls, rejected, appendCalls, appended,
                   storeAtStart>>

\* The process ends; the next invocation starts with nothing in memory.
Exit(p) ==
    /\ pc[p] \in {"done", "crashed"}
    /\ LET failed == appendCalls[p] > 0 /\ appended[p] = <<>>
       IN last' = [ran |-> TRUE,
                   \* it returned, every schedule call answered, nothing failed to save
                   clean |-> pc[p] = "done" /\ apiFailed[p] = {} /\ ~failed,
                   appendFailed |-> failed,
                   batch |-> IF failed THEN new_games_to_append_data[p] ELSE <<>>,
                   \* both schedule calls answered
                   answered |-> apiFailed[p] = {},
                   \* the load returned the stored ids as they were
                   exact |-> loaded[p] = StoredIds(storeAtStart[p]),
                   rejected |-> rejected[p]]
    /\ pc' = Set(pc, p, "idle")
    /\ processed_game_ids' = Set(processed_game_ids, p, {})
    /\ loaded' = Set(loaded, p, {})
    /\ all_fetched_games_dict' = Set(all_fetched_games_dict, p, <<>>)
    /\ apiFailed' = Set(apiFailed, p, {})
    /\ idx' = Set(idx, p, 1)
    /\ new_games_to_append_data' = Set(new_games_to_append_data, p, <<>>)
    /\ found_new_final_game_flag' = Set(found_new_final_game_flag, p, FALSE)
    /\ returned' = Set(returned, p, "unset")
    /\ aborted' = Set(aborted, p, "")
    /\ resolverCalls' = Set(resolverCalls, p, EmptyDict)
    /\ rejected' = Set(rejected, p, {})
    /\ appendCalls' = Set(appendCalls, p, 0)
    /\ appended' = Set(appended, p, <<>>)
    /\ storeAtStart' = Set(storeAtStart, p, <<>>)
    /\ csvRuns' = Set(csvRuns, p, 0)
    /\ UNCHANGED <<registry, import, probe, feed, table, store>>

Cycle(p) == Load(p) \/ Fetch(p) \/ Examine(p) \/ Persist(p) \/ Main(p) \/ Exit(p)

\* One invocation at a time, as the scheduler runs the script.
Next == Publish \/ Tick \/ Cycle(1)

Spec == Init /\ [][Next]_vars

\* ------------------------------------------------- two invocations at once

\* The games the API lists while two invocations overlap.
ConcurrentGames == {GameA, GameB}

\* What the API returns for the two dates, the same for both invocations.
ConcurrentFeeds ==
    {f \in [QueryDates -> {l \in ListsUpTo(MaxFeed) :
                              \A i \in 1..Len(l) : l[i] \in ConcurrentGames}] :
        FeedSize(f) <= MaxFeed}

InitConcurrent ==
    /\ Imported
    /\ \/ table = "absent" /\ store = <<>>
       \/ table = "ok" /\ store \in {<<>>, <<LegacyRow>>}
    /\ feed \in ConcurrentFeeds
    /\ last = NoRun
    /\ InitLocals
    /\ probe_in = NoProbe
    /\ probe_out = NoProbe

\* Nothing keeps a second invocation (a manual run, an overlapping scheduled
\* run) from starting while the first is under way: their steps interleave.
\* Each of the two runs the script once, from its start to the end of the
\* process.
Invocation(p) == Load(p) \/ Fetch(p) \/ Examine(p) \/ Persist(p) \/ Main(p)

SpecConcurrent == InitConcurrent /\ [][Invocation(1) \/ Invocation(2)]_vars

\* ------------------------------------------- observations without an id

\* A final game the API lists without the game_id key.
GameIdAbsent ==
    Obs(Missing, S("2024-07-04"), S("Toronto Blue Jays"), S("Boston Red Sox"),
        I(4), I(6), S("Final"), S("R"))

\* The games the API lists, with and without an id.
IdGames == {GameA, GameB, GameNoId, GameIdAbsent}

\* What the API returns for the two dates.
IdFeeds ==
    {f \in [QueryDates -> UNION {[1..n -> IdGames] : n \in 0..MaxFeed}] :
        FeedSize(f) <= MaxFeed}

InitIds ==
    /\ Imported
    /\ \/ table = "absent" /\ store = <<>>
       \/ table = "ok" /\ store \in {<<>>, <<LegacyRow>>}
    /\ feed \in IdFeeds
    /\ last = NoRun
    /\ InitLocals
    /\ probe_in = NoProbe
    /\ probe_out = NoProbe

\* One invocation of the script over a feed that may list games without an id.
SpecIds == InitIds /\ [][Invocation(1)]_vars

\* ------------------------------------------- one call of the resolver

\* The field values of the observations handed to process_single_game_data on
\* its own: present, null, missing and malformed ones.
ProbeDates ==
    {S("2024-07-04"), S("2024-7-4"), S("07/04/2024"), S("2024-02-30"), S(""), None, Missing,
     I(20240704)}
ProbeAwayNames == {S("New York Yankees"), S("Gotham Rogues"), None, Missing}
ProbeHomeNames == {S("Boston Sox"), S("boston red SOX"), S("Springfield Isotopes"), None}
ProbeAwayScores == {I(3), S(" 2 "), S("x"), I(-1), None, Missing}
ProbeHomeScores == {I(5), I(0), S("-4"), S(""), None}

ProbeObservations ==
    {Obs(S("2024_07_04_BOS_NYA"), d, a, h, x, y, S("Final"), S("R")) :
        d \in ProbeDates, a \in ProbeAwayNames, h \in ProbeHomeNames,
        x \in ProbeAwayScores, y \in ProbeHomeScores}

\* The script is imported and one observation is about to be resolved.
InitResolver ==
    /\ Imported
    /\ table = "absent" /\ store = <<>>
    /\ NothingRun
    /\ probe_in \in ProbeObservations
    /\ probe_out = NoProbe

\* game_row_data = process_single_game_data(game_dict_val, game_id_str_key)
ResolveObservation ==
    /\ probe_out = NoProbe
    /\ probe_out' = process_single_game_data(probe_in, PyStr(probe_in.game_id), Registry)
    /\ UNCHANGED <<registry, env, pc, locals, history, import, probe_in>>

SpecResolver == InitResolver /\ [][ResolveObservation]_vars

\* --------------------------------------------- the registry loop alone

\* Rows of the reference file: franchises in force and ended, a nickname that
\* two rows share, cells left empty and years that are no integers.
TeamRows ==
    {TeamRow(S("Highlanders"), S("New York"), S("NYA"), I(1903), S("1912")),
     TeamRow(S("Yankees"), S("New York"), S("NYA"), I(1913), S("Present")),
     TeamRow(S("Sox"), S("Boston"), S("BOS"), I(1908), S("Present")),
     TeamRow(S("sox"), S("chicago"), S("CHA"), I(1901), S("Present")),
     TeamRow(S("Blue Jays"), S("Toronto"), S("TOR"), I(1977), None),
     TeamRow(S("Expos"), None, S("MON"), I(1969), S("2004")),
     TeamRow(S("Pilots"), S("Seattle"), S("SE1"), S("19x9"), S("Present")),
     TeamRow(S("Browns"), S("St. Louis"), S("SLA"), I(1902), S("n/a")),
     TeamRow(S("Ghosts"), S("Nowhere"), S("GHO"), Inf, S("Present")),
     TeamRow(S("Stars"), S("Newark"), None, I(1900), S("Present")),
     TeamRow(None, S("Brooklyn"), S("BRO"), I(1900), S("Present"))}

\* The years the script is run in.
Years == {1912, 1913, 2024}

\* The names looked up once the loop is over.
ProbeNames ==
    {"Boston Sox", "BOSTON SOX", "boston red SOX", "chicago sox", "Sox", "sox",
     "Toronto Blue Jays", "Jays", "New York Highlanders", "Montreal Expos", "Gotham Rogues",
     "", "  "}

\* Lists of at most n reference rows.
RECURSIVE RowListsUpTo(_)
RowListsUpTo(n) ==
    IF n = 0 THEN {<<>>}
    ELSE LET shorter == RowListsUpTo(n - 1)
         IN shorter \cup {Append(l, r) : l \in {t \in shorter : Len(t) = n - 1}, r \in TeamRows}

\* The reference file was read and the loop is about to start.
InitRegistry ==
    /\ teams_rows \in RowListsUpTo(MaxTeams)
    /\ year_now \in Years
    /\ row_pos = 1
    /\ import_error = ""
    /\ team_mapping = EmptyDict
    /\ full_name_mapping = EmptyDict
    /\ table = "absent" /\ store = <<>>
    /\ NothingRun
    /\ probe_in = NoProbe
    /\ probe_out = NoProbe

\* The loop is over and raised nothing.
BuildDone == row_pos > Len(teams_rows) /\ import_error = ""

\* One pass of the loop over teams_df.iterrows().
RegistryRow ==
    /\ import_error = ""
    /\ row_pos <= Len(teams_rows)
    /\ LET row == teams_rows[row_pos]
           after == AddRow(Registry, row, year_now)
       IN IF RowRaises(row, year_now) # ""
          THEN /\ import_error' = RowRaises(row, year_now)
               /\ UNCHANGED <<registry, row_pos>>
          ELSE /\ team_mapping' = after.team_mapping
               /\ full_name_mapping' = after.full_name_mapping
               /\ row_pos' = row_pos + 1
               /\ UNCHANGED import_error
    /\ UNCHANGED <<teams_rows, year_now, env, pc, locals, history, probe>>

\* The team resolution of process_single_game_data for one name.
ResolveName ==
    /\ BuildDone
    /\ probe_out = NoProbe
    /\ \E full \in ProbeNames :
          /\ probe_in' = [kind |-> "name", name |-> full]
          /\ probe_out' = [kind |-> "team", value |-> ResolveTeam(full, Registry)]
    /\ UNCHANGED <<registry, env, pc, locals, history, import>>

SpecRegistry == InitRegistry /\ [][RegistryRow \/ ResolveName]_vars

\* ------------------------------------------------------------- claims

\* check_and_process_games returned.
Returned(p) == pc[p] \in {"returned", "done"}

\* Both passes of the loop over the dates are over.
Merged(p) ==
    \/ pc[p] \in {"examine", "returned", "done"}
    \/ pc[p] = "crashed" /\ aborted[p] # "table_exists"

\* The run ended, by returning or by an exception.
Over(p) == pc[p] \in {"returned", "done", "crashed"}

Batch(p) == new_games_to_append_data[p]
BatchIds(p) == {PyStr(Batch(p)[i].game_id) : i \in 1..Len(Batch(p))}
ValueOf(dict, k) == dict[Lookup(dict, k)][2]

\* The places of the observations with id k in one date's list.
PlacesOf(games, k) ==
    {i \in 1..Len(games) :
        Get(games[i], "game_id") # None /\ PyStr(Get(games[i], "game_id")) = k}
IdsOf(games) ==
    {PyStr(Get(games[i], "game_id")) :
        i \in {j \in 1..Len(games) : Get(games[j], "game_id") # None}}
LastOf(games, k) ==
    games[CHOOSE i \in PlacesOf(games, k) : \A j \in PlacesOf(games, k) : j <= i]

\* The status is final, game over, completed, or starts with completed early,
\* whatever the case of its letters.
ReportsFinal(obs) ==
    LET status == GetOr(obs, "status", S("Unknown"))
    IN /\ IsStr(status)
       /\ \/ Lower(status[2]) \in {"final", "game over", "completed"}
          \/ StartsWith(Lower(status[2]), "completed early")

\* An observation the cycle hands to the resolver: final, regular season, not
\* among the ids loaded from the table.
Candidate(p, k, obs) ==
    ReportsFinal(obs) /\ GetOr(obs, "game_type", S("Unknown")) = S("R") /\ k \notin loaded[p]

\* C1: a cycle that follows a cycle against the same feed and table accepts
\* nothing: its batch is empty, it appends no row and it returns False.  Stated
\* for the runs in which every schedule call answered and the first cycle
\* returned with its rows saved; the claim sets no such condition.
C1_SecondRunAcceptsNothing ==
    \A p \in Runs :
        (last.ran /\ last.clean /\ Returned(p) /\ apiFailed[p] = {})
        => /\ Batch(p) = <<>>
           /\ appended[p] = <<>>
           /\ returned[p] = "False"

NoDuplicateIds(rows) ==
    \A i, j \in 1..Len(rows) :
        (i # j /\ rows[i].game_id # None) => rows[i].game_id # rows[j].game_id

\* C2: the table never holds two rows with the same game_id.
C2_EachGameOnce == NoDuplicateIds(store)

\* C3: an id both queries returned is merged with the observation of the
\* "today" query (the last one with that id in its answer); the filter and the
\* resolver read that observation only.
C3_TodayOverwritesYesterday ==
    \A p \in Runs :
        (Merged(p) /\ "today" \notin apiFailed[p])
        => \A k \in IdsOf(feed["today"]) :
              LET seen == LastOf(feed["today"], k)
              IN /\ k \in Keys(all_fetched_games_dict[p])
                 /\ ValueOf(all_fetched_games_dict[p], k) = seen
                 /\ k \in DOMAIN resolverCalls[p]
                        => ReportsFinal(seen) /\ seen.game_type = S("R")
                 /\ \A i \in 1..Len(Batch(p)) :
                        PyStr(Batch(p)[i].game_id) = k
                        => Batch(p)[i] = process_single_game_data(seen, k, Registry).row

\* An id both queries returned, with different contents, went through a whole
\* cycle and into the batch.
C3_Witness ==
    \E p \in Runs :
        /\ pc[p] = "done" /\ apiFailed[p] = {}
        /\ \E k \in IdsOf(feed["yesterday"]) \cap IdsOf(feed["today"]) :
              /\ LastOf(feed["yesterday"], k) # LastOf(feed["today"], k)
              /\ k \in BatchIds(p)

\* C4: in one cycle the resolver is called at most once for an id and no two
\* rows of the batch have the same game_id.
C4_EvaluatedOnce ==
    \A p \in Runs :
        /\ \A k \in DOMAIN resolverCalls[p] : resolverCalls[p][k] <= 1
        /\ NoDuplicateIds(Batch(p))
        /\ Cardinality(BatchIds(p)) = Len(Batch(p))

\* An id the two answers list twice or more was handed to the resolver.
C4_Witness ==
    \E p \in Runs :
        /\ pc[p] = "done" /\ apiFailed[p] = {}
        /\ \E k \in DOMAIN resolverCalls[p] :
              Cardinality(PlacesOf(feed["yesterday"], k))
                  + Cardinality(PlacesOf(feed["today"], k)) >= 2

\* C5: every id handed to the resolver, and every row of the batch or of what
\* was appended, belongs to a merged observation that reports a final status,
\* has game type R and whose id was not among the ingested ids.
C5_OnlyNewFinalRegular ==
    \A p \in Runs :
        /\ \A k \in DOMAIN resolverCalls[p] \cup BatchIds(p) :
              /\ k \in Keys(all_fetched_games_dict[p])
              /\ Candidate(p, k, ValueOf(all_fetched_games_dict[p], k))
        /\ BatchIds(p) \subseteq DOMAIN resolverCalls[p]
        /\ appended[p] \in {<<>>, Batch(p)}

\* A cycle saved a row while another merged observation was filtered out.
C5_Witness ==
    \E p \in Runs :
        /\ pc[p] = "done" /\ appended[p] # <<>>
        /\ \E k \in Keys(all_fetched_games_dict[p]) : k \notin DOMAIN resolverCalls[p]

\* to_sql was called and raised.
AppendFailed(p) == appendCalls[p] > 0 /\ appended[p] = <<>>

\* C6: when the append of a non-empty batch fails the cycle returns False, the
\* table is as it was when the cycle began and the CSV is not regenerated.
C6_AppendFailureReportsNothing ==
    \A p \in Runs :
        (Returned(p) /\ AppendFailed(p))
        => /\ returned[p] = "False"
           /\ store = storeAtStart[p]
           /\ csvRuns[p] = 0

\* The main block finished after a failed append of a non-empty batch.
C6_Witness ==
    \E p \in Runs : pc[p] = "done" /\ AppendFailed(p) /\ Batch(p) # <<>>

\* C7: the cycle returns True exactly when it appended at least one row, and
\* the CSV is regenerated (once) exactly after a cycle that returned True.
C7_TrueIffAppended ==
    \A p \in Runs :
        /\ Returned(p) => (returned[p] = "True" <=> Len(appended[p]) >= 1)
        /\ Returned(p) => store = storeAtStart[p] \o appended[p]
        /\ csvRuns[p] = IF pc[p] = "done" /\ returned[p] = "True" THEN 1 ELSE 0

\* A cycle appended rows, returned True and the CSV was regenerated.
C7_Witness ==
    \E p \in Runs :
        pc[p] = "done" /\ returned[p] = "True" /\ appended[p] # <<>> /\ csvRuns[p] = 1

\* The merge of the answers of the dates whose schedule call did not raise.
MergeOfAnswered(p) ==
    LET y == IF "yesterday" \in apiFailed[p] THEN <<>> ELSE feed["yesterday"]
        d == IF "today" \in apiFailed[p] THEN <<>> ELSE feed["today"]
    IN MergeDay(MergeDay(<<>>, y, Len(y)), d, Len(d))

\* C8 (what holds): a date whose schedule call raised adds nothing to the merged
\* observations and the other date is queried and merged.
C8_FailedDateSkipped ==
    \A p \in Runs : Merged(p) => all_fetched_games_dict[p] = MergeOfAnswered(p)

\* C8: when the schedule call of one date raised, the merged observations are
\* those of the other date and the cycle completes: no exception ends it.
C8_FailedDateCycleCompletes ==
    \A p \in Runs :
        Cardinality(apiFailed[p]) = 1
        => /\ Merged(p) => all_fetched_games_dict[p] = MergeOfAnswered(p)
           /\ pc[p] # "crashed"

\* C9: no observation makes the cycle abort, whatever its fields hold.
C9_NeverAborts ==
    \A p \in Runs : aborted[p] \notin {"AttributeError", "TypeError"}

\* Every merged observation that was a candidate was rejected by the resolver.
AllCandidatesRejected(p) ==
    \A i \in 1..Len(all_fetched_games_dict[p]) :
        Candidate(p, all_fetched_games_dict[p][i][1], all_fetched_games_dict[p][i][2])
        => all_fetched_games_dict[p][i][1] \in rejected[p]

\* C10 (what holds): an id the resolver rejected is in no row of the batch, and
\* a cycle with an empty batch never calls to_sql; when it returns, it returns
\* False.
C10_RejectedNotPersisted ==
    \A p \in Runs :
        /\ rejected[p] \cap BatchIds(p) = {}
        /\ (Over(p) /\ rejected[p] # {} /\ AllCandidatesRejected(p))
           => /\ appendCalls[p] = 0
              /\ Returned(p) => returned[p] = "False"

\* C10: an id the resolver rejected is in no row of the batch, and a cycle all
\* of whose candidates were rejected makes no to_sql call and returns False.
C10_AllRejectedReturnsFalse ==
    \A p \in Runs :
        /\ rejected[p] \cap BatchIds(p) = {}
        /\ (Over(p) /\ rejected[p] # {} /\ AllCandidatesRejected(p))
           => /\ appendCalls[p] = 0
              /\ returned[p] = "False"

\* The franchise codes the two mappings hold.
RegistryCodes ==
    {team_mapping[k] : k \in DOMAIN team_mapping}
        \cup {full_name_mapping[k] : k \in DOMAIN full_name_mapping}

NonNegativeInt(v) == IsInt(v) /\ v[2] >= 0

\* C11: every record the resolver returns has two non-negative integer scores
\* and two non-empty franchise codes that the registry holds.
C11_RecordWellFormed ==
    probe_out.kind = "row"
    => /\ NonNegativeInt(probe_out.row.visitor_score)
       /\ NonNegativeInt(probe_out.row.home_score)
       /\ probe_out.row.visitor_team \in RegistryCodes \ {S("")}
       /\ probe_out.row.home_team \in RegistryCodes \ {S("")}

\* C11 (what holds): the scores of a record are integers and its two codes are
\* non-empty codes of the registry.
C11_CodesFromRegistry ==
    probe_out.kind = "row"
    => /\ IsInt(probe_out.row.visitor_score)
       /\ IsInt(probe_out.row.home_score)
       /\ probe_out.row.visitor_team \in RegistryCodes \ {S("")}
       /\ probe_out.row.home_team \in RegistryCodes \ {S("")}

\* The games the two answers list that are final, regular season and resolvable,
\* each by its merged observation.
FinalResolvable(p) ==
    LET merged == MergeOfAnswered(p)
    IN {merged[i][1] : i \in {j \in 1..Len(merged) :
            /\ ReportsFinal(merged[j][2])
            /\ GetOr(merged[j][2], "game_type", S("Unknown")) = S("R")
            /\ process_single_game_data(merged[j][2], merged[j][1], Registry).kind = "row"}}

\* C12: after a cycle whose schedule calls both answered and whose append did
\* not fail (the table can take the rows: it has a game_id column), every final,
\* regular-season, resolvable game of the two answers is in the table.
C12_FinalGameStored ==
    \A p \in Runs :
        (Over(p) /\ Merged(p) /\ apiFailed[p] = {} /\ ~AppendFailed(p) /\ table # "nocol")
        => FinalResolvable(p) \subseteq StoredIds(store)

\* C12 (what holds): the same for the cycles that returned.
C12_FinalGameStoredOnReturn ==
    \A p \in Runs :
        (Returned(p) /\ apiFailed[p] = {} /\ ~AppendFailed(p))
        => FinalResolvable(p) \subseteq StoredIds(store)

\* The last year of the row is open: the token Present or an empty cell.
OpenEnded(row) == row.LAST = S("Present") \/ row.LAST \in {None, Missing}

\* The row has a franchise code and its range of years holds y, an open last
\* year counting as y + 1.
InForce(row, y) ==
    /\ row.FRANCHISE \notin {None, Missing}
    /\ PyInt(row.FIRST)[1]
    /\ PyInt(row.FIRST)[2] <= y
    /\ IF OpenEnded(row) THEN y <= y + 1
       ELSE PyInt(row.LAST)[1] /\ y <= PyInt(row.LAST)[2]

Named(row) == row.NICKNAME \notin {None, Missing}
Sited(row) == row.CITY \notin {None, Missing}
NicknameKey(row) == Lower(PyStr(row.NICKNAME))
FullNameKey(row) == Lower(PyStr(row.CITY) \o " " \o PyStr(row.NICKNAME))
RowsInForce == {i \in 1..Len(teams_rows) : InForce(teams_rows[i], year_now) /\ Named(teams_rows[i])}

\* C13: when the loop is over, a lower-cased nickname is a key of team_mapping
\* exactly when a row in force in the year has it, and it maps to the code of
\* such a row; the same for "city nickname" and the rows that have a city.
C13_IndexMatchesRanges ==
    BuildDone
    => /\ DOMAIN team_mapping = {NicknameKey(teams_rows[i]) : i \in RowsInForce}
       /\ \A k \in DOMAIN team_mapping :
             \E i \in RowsInForce :
                NicknameKey(teams_rows[i]) = k /\ teams_rows[i].FRANCHISE = team_mapping[k]
       /\ DOMAIN full_name_mapping =
             {FullNameKey(teams_rows[i]) : i \in {j \in RowsInForce : Sited(teams_rows[j])}}
       /\ \A k \in DOMAIN full_name_mapping :
             \E i \in RowsInForce :
                /\ Sited(teams_rows[i])
                /\ FullNameKey(teams_rows[i]) = k
                /\ teams_rows[i].FRANCHISE = full_name_mapping[k]

\* The loop went over a row whose years do not hold the year, whose name the
\* index does not hold, and over a row in force.
C13_Witness ==
    /\ BuildDone
    /\ team_mapping # EmptyDict
    /\ \E i \in 1..Len(teams_rows) :
          /\ Named(teams_rows[i])
          /\ PyInt(teams_rows[i].FIRST)[1]
          /\ ~InForce(teams_rows[i], year_now)
          /\ NicknameKey(teams_rows[i]) \notin DOMAIN team_mapping

\* The record of the game of 4 July 2024, New York Yankees 3 at Boston Sox 5,
\* with its date written as the text date.
ScenarioRecord(date) ==
    [game_id |-> S("2024_07_04_BOS_NYA"), date |-> S(date), visitor_team |-> S("NYA"),
     home_team |-> S("BOS"), visitor_score |-> I(3), home_score |-> I(5)]

\* The cycle loaded no id and the answers list that one game, final.
ScenarioCycle(p) ==
    /\ Returned(p)
    /\ loaded[p] = {}
    /\ all_fetched_games_dict[p] = << <<"2024_07_04_BOS_NYA", GameA>> >>
    /\ \E i \in 1..Len(teams_rows) :
          teams_rows[i] = TeamRow(S("Sox"), S("Boston"), S("BOS"), I(1908), S("Present"))

\* C14 (as the code has it): in the scenario the cycle accepts exactly one
\* record: game_id 2024_07_04_BOS_NYA, date 20240704, visitor NYA, home BOS,
\* scores 3 and 5.
C14_ScenarioRecordCompactDate ==
    \A p \in Runs :
        ScenarioCycle(p)
        => /\ Batch(p) = <<ScenarioRecord("20240704")>>
           /\ appended[p] \in {<<>>, Batch(p)}
           /\ AppendFailed(p) \/ appended[p] = Batch(p)

\* The scenario ran to the end of the main block and its record was saved.
C14_Witness ==
    \E p \in Runs :
        /\ ScenarioCycle(p)
        /\ pc[p] = "done"
        /\ appended[p] = <<ScenarioRecord("20240704")>>

\* C14: in the scenario the cycle accepts exactly one record: game_id
\* 2024_07_04_BOS_NYA, date 2024-07-04, visitor NYA, home BOS, scores 3 and 5.
C14_ScenarioRecordIsoDate ==
    \A p \in Runs :
        ScenarioCycle(p) => Batch(p) = <<ScenarioRecord("2024-07-04")>>

\* load_processed_games_from_db returned and nothing was appended since.
JustLoaded(p) == pc[p] \in {"fetch_yesterday", "fetch_today", "examine"}

\* C15: the load never ends the run, and what it returns is the empty set when
\* the table or its game_id column is missing and otherwise the set of the
\* distinct non-null game_id values of the table, as strings.
C15_LoadExactNeverFails ==
    \A p \in Runs :
        /\ aborted[p] # "table_exists"
        /\ JustLoaded(p)
           => loaded[p] = IF table = "ok" THEN StoredIds(storeAtStart[p]) ELSE {}

\* C15 (what holds): what the load returns is a subset of the stored ids, empty
\* when the table or the column is missing.
C15_LoadReturnsStoredIds ==
    \A p \in Runs :
        JustLoaded(p)
        => /\ loaded[p] \subseteq StoredIds(storeAtStart[p])
           /\ table # "ok" => loaded[p] = {}

\* The part of C15 about the returned set alone.
C15_LoadExact ==
    \A p \in Runs :
        JustLoaded(p) => loaded[p] = IF table = "ok" THEN StoredIds(storeAtStart[p]) ELSE {}

\* The five checks, in the words of the validation order.
DatePresent(obs) == obs.game_date \notin {Missing, None, S("")}
FieldsPresent(obs) ==
    \A k \in {"away_name", "home_name", "away_score", "home_score"} :
        obs[k] \notin {Missing, None}
DateParses(obs) == IsStr(obs.game_date) /\ Strptime(obs.game_date[2])[1]
VisitorResolves(obs) == ResolveTeam(PyStr(obs.away_name), Registry) # None
HomeResolves(obs) == ResolveTeam(PyStr(obs.home_name), Registry) # None
ScoresParse(obs) == PyInt(obs.away_score)[1] /\ PyInt(obs.home_score)[1]

\* The first check that fails, "" when all pass.
FirstFailure(obs) ==
    IF ~DatePresent(obs) THEN "game_date"
    ELSE IF ~FieldsPresent(obs) THEN "essential"
    ELSE IF ~DateParses(obs) THEN "date_format"
    ELSE IF ~VisitorResolves(obs) THEN "visitor"
    ELSE IF ~HomeResolves(obs) THEN "home"
    ELSE IF ~ScoresParse(obs) THEN "score"
    ELSE ""

\* What the validation order makes of an observation.
InOrder(obs, out) ==
    IF FirstFailure(obs) = ""
    THEN /\ out.kind = "row"
         /\ out.row.game_id = S(PyStr(obs.game_id))
         /\ out.row.visitor_team = ResolveTeam(PyStr(obs.away_name), Registry)
         /\ out.row.home_team = ResolveTeam(PyStr(obs.home_name), Registry)
         /\ out.row.visitor_score = I(PyInt(obs.away_score)[2])
         /\ out.row.home_score = I(PyInt(obs.home_score)[2])
    ELSE out = Rejected(FirstFailure(obs))

\* C16: the resolver returns a record exactly when the five checks pass, the
\* first failing check decides the rejection, and the record carries the id,
\* the two resolved codes and the integer scores.
C16_ChecksInOrder ==
    probe_out.kind \in {"row", "none", "raise"} => InOrder(probe_in, probe_out)

\* C16 (what holds): the same for the observations whose game_date, when
\* present, is a string.
C16_ChecksInOrderTextDate ==
    (probe_out.kind \in {"row", "none", "raise"}
        /\ (IsStr(probe_in.game_date) \/ ~DatePresent(probe_in) \/ ~FieldsPresent(probe_in)))
    => InOrder(probe_in, probe_out)

\* The last whitespace-separated word of a name, <<>> for a name without words.
LastWord(full) == LET parts == Split(full) IN IF parts = <<>> THEN <<>> ELSE <<parts[Len(parts)]>>

\* The four strategies in their order, the first that finds a key winning:
\* lower-cased full name, lower-cased last word, raw full name, raw last word.
OrderedStrategies(full, reg) ==
    LET word == LastWord(full)
    IN IF Lower(full) \in DOMAIN reg.full_name_mapping
       THEN reg.full_name_mapping[Lower(full)]
       ELSE IF word # <<>> /\ Lower(word[1]) \in DOMAIN reg.team_mapping
       THEN reg.team_mapping[Lower(word[1])]
       ELSE IF full \in DOMAIN reg.full_name_mapping
       THEN reg.full_name_mapping[full]
       ELSE IF word # <<>> /\ word[1] \in DOMAIN reg.team_mapping
       THEN reg.team_mapping[word[1]]
       ELSE None

\* C17: for every name and every index the registry loop builds, the team
\* resolution returns what the ordered list of the four strategies returns, and
\* None only when all four find nothing.
C17_ResolutionMatchesStrategies ==
    probe_out.kind = "team"
    => probe_out.value = OrderedStrategies(probe_in.name, Registry)

\* A name not written in lower case was resolved by its last word.
C17_Witness ==
    /\ probe_out.kind = "team"
    /\ probe_out.value # None
    /\ probe_in.name # Lower(probe_in.name)
    /\ Lower(probe_in.name) \notin DOMAIN full_name_mapping

\* The first year is an integer, and so is the last year unless it is open.
YearsParse(row) ==
    /\ PyInt(row.FIRST)[1]
    /\ OpenEnded(row) \/ PyInt(row.LAST)[1]

\* The index the loop builds from the rows whose years parse.
IndexWithoutMalformed ==
    LET kept == SelectSeq(teams_rows, YearsParse)
    IN BuildMappings(kept, Len(kept), year_now)

\* C18: no row makes the loop raise, and when the loop is over the index is
\* the one the rows without those of unparseable years give.
C18_MalformedRowSkipped ==
    /\ import_error = ""
    /\ BuildDone => Registry = IndexWithoutMalformed

\* C18 (what holds): when the loop is over the index is the one the rows
\* without those of unparseable years give.
C18_SkippedWhenBuilt ==
    BuildDone => Registry = IndexWithoutMalformed

\* Both runs loaded the stored ids as they were, neither saw k among them, and
\* both handed a row for k to to_sql, which returned.
RacedOn(k) ==
    \A p \in Runs :
        /\ pc[p] \in {"returned", "done"}
        /\ loaded[p] = StoredIds(storeAtStart[p])
        /\ k \notin loaded[p]
        /\ \E i \in 1..Len(appended[p]) : PyStr(appended[p][i].game_id) = k

RowsWithId(rows, k) == {i \in 1..Len(rows) : rows[i].game_id # None /\ PyStr(rows[i].game_id) = k}

\* C19: when two overlapping cycles both load the stored ids before either
\* appends and both append a row for game_id k, the table holds k twice:
\* nothing serialises the load and the append.
C19_RaceDuplicates ==
    \A k \in StoredIds(store) \cup UNION {loaded[p] : p \in Runs} \cup UNION {BatchIds(p) : p \in Runs} :
        RacedOn(k) => Cardinality(RowsWithId(store, k)) >= 2

\* Two overlapping cycles raced on an id and the table holds it twice.
C19_Witness ==
    \E k \in StoredIds(store) :
        /\ RacedOn(k)
        /\ Cardinality(RowsWithId(store, k)) = 2
        /\ \A p \in Runs : apiFailed[p] = {}

\* The ids of the rows of a batch.
RowIds(rows) == {PyStr(rows[i].game_id) : i \in 1..Len(rows)}

\* Run p is the re-run of the cycle before it: the feed is the same, both
\* cycles had their schedule calls answered, and the store works for p (the
\* load returned the stored ids as they are, the append did not fail).
RerunOnWorkingStore(p) ==
    /\ last.ran
    /\ last.answered
    /\ Returned(p)
    /\ apiFailed[p] = {}
    /\ loaded[p] = StoredIds(storeAtStart[p])
    /\ ~AppendFailed(p)

\* The re-run recovered what the cycle before it left undone.
Recovered(p) ==
    /\ last.appendFailed =>
          /\ loaded[p] \cap RowIds(last.batch) = {}
          /\ appended[p] = last.batch
          /\ \A k \in RowIds(last.batch) : Cardinality(RowsWithId(appended[p], k)) = 1
    /\ \A k \in last.rejected : Count(resolverCalls[p], k) >= 1

\* C20: a re-run with the same feed and a working store, after a cycle whose
\* append failed, loads none of the failed batch's ids and appends exactly the
\* failed batch, each game once; a game the previous cycle rejected is
\* evaluated again.
C20_RerunRecovers == RerunOnWorkingStore(1) => Recovered(1)

\* C20 (what holds): the same, when the load of the previous cycle returned
\* the stored ids as they were.
C20_RerunRecoversAfterExactLoad ==
    (RerunOnWorkingStore(1) /\ last.exact) => Recovered(1)

\* C20 (what holds): a re-run found a failed batch and appended it.
C20_Reached ==
    /\ RerunOnWorkingStore(1)
    /\ last.exact
    /\ last.appendFailed
    /\ appended[1] = last.batch

\* The entries of all_fetched_games_dict the second loop has gone past.
Examined(p) == 1..(idx[p] - 1)

\* The entry at position i did not pass the filter on status and game type.
FilteredOut(p, i) ==
    LET game_dict_val == all_fetched_games_dict[p][i][2]
        status == GetOr(game_dict_val, "status", S("Unknown"))
    IN ~(/\ is_completed_status(Lower(status[2]))
         /\ is_regular_season(GetOr(game_dict_val, "game_type", S("Unknown"))))

\* C21: in every state of a cycle processed_game_ids is the set the load
\* returned united with the ids of the rows in the batch; an id outside the
\* loaded set is marked only after one resolver call that gave a row, and an
\* id that was rejected or filtered out is not marked by the cycle.
C21_MarksAreLoadedPlusBatch ==
    \A p \in Runs :
        /\ processed_game_ids[p] = loaded[p] \cup BatchIds(p)
        /\ \A k \in processed_game_ids[p] \ loaded[p] : Count(resolverCalls[p], k) = 1
        /\ rejected[p] \cap processed_game_ids[p] = {}
        /\ \A i \in Examined(p) :
              FilteredOut(p, i) =>
                 all_fetched_games_dict[p][i][1] \notin processed_game_ids[p] \ loaded[p]

\* A cycle marked one id for a row in its batch, rejected another and went
\* past both.
C21_Witness ==
    /\ pc[1] = "examine"
    /\ BatchIds(1) # {}
    /\ rejected[1] # {}
    /\ idx[1] > Len(all_fetched_games_dict[1])

\* A cycle went past an entry it filtered out while it held marks of its own.
C21_WitnessFiltered ==
    /\ pc[1] = "examine"
    /\ BatchIds(1) # {}
    /\ \E i \in Examined(1) : FilteredOut(1, i)

\* The id .get('game_id') gives for an observation, None when it has none.
ApiId(obs) == Get(obs, "game_id")

\* The observations the schedule calls of run p that answered listed.
Listed(p) ==
    UNION {{feed[d][i] : i \in 1..Len(feed[d])} : d \in QueryDates \ apiFailed[p]}

\* The row carries, as a string, the id of an observation the API listed.
FromListedId(p, row) ==
    /\ IsStr(row.game_id)
    /\ \E obs \in Listed(p) : ApiId(obs) # None /\ row.game_id = S(PyStr(ApiId(obs)))

\* C22: an observation without a game id is not merged, not resolved and not
\* persisted: every entry of all_fetched_games_dict has an id and is keyed by
\* its string form, the resolver is called for merged entries only, and every
\* row in the batch or appended to the table has as game_id the string form
\* of an id the API returned.
C22_NoIdNeverStored ==
    \A p \in Runs :
        /\ \A i \in 1..Len(all_fetched_games_dict[p]) :
              LET entry == all_fetched_games_dict[p][i]
              IN /\ ApiId(entry[2]) # None
                 /\ entry[1] = PyStr(ApiId(entry[2]))
        /\ DOMAIN resolverCalls[p] \subseteq Keys(all_fetched_games_dict[p])
        /\ \A i \in 1..Len(Batch(p)) : FromListedId(p, Batch(p)[i])
        /\ \A i \in 1..Len(appended[p]) : FromListedId(p, appended[p][i])

\* A cycle whose schedule calls listed a final game without an id and a game
\* with one appended a row and nothing for the game without an id.
C22_Witness ==
    /\ pc[1] \in {"returned", "done"}
    /\ apiFailed[1] = {}
    /\ \E obs \in Listed(1) : ApiId(obs) = None /\ ReportsFinal(obs)
    /\ Len(appended[1]) = 1
    /\ Len(store) = Len(storeAtStart[1]) + 1

====
